---- MODULE Spec2Model ----
(***************************************************************************)
(* Model of the fre reconciler (src/src/reconcile.ts, commit.ts,           *)
(* schedule.ts, h.ts, dom.ts).                                             *)
(*                                                                         *)
(* JavaScript objects live in heaps that are sequences indexed by object   *)
(* identity: fibers (work nodes / vnodes), arrays (the `kids` arrays,      *)
(* which clone() aliases and diff() mutates in place), hooks (the          *)
(* per-component hooks bag, shared by every clone of a component) and dom  *)
(* (the host tree).  NULL (0) stands for null / undefined.                 *)
(*                                                                         *)
(* Every handler (render, a setState call, one dispatched flush) is one    *)
(* action.  The handler's code is a pure operator over a machine record    *)
(* `st` holding the heaps, the scheduler queues and the event log; a       *)
(* thrown exception sets st.err and aborts the rest of the handler.        *)
(***************************************************************************)
EXTENDS Integers, Sequences, FiniteSets, TLC

VARIABLES fibers, arrays, hooks, dom, queue, transitions, translate,
          micro, macro, rootFiber, log, committed, lastErr, nUpdates,
          nReq, expected, envTick, turn, refs

vars == <<fibers, arrays, hooks, dom, queue, transitions, translate,
          micro, macro, rootFiber, log, committed, lastErr, nUpdates,
          nReq, expected, envTick, turn, refs>>

----------------------------------------------------------------------------
(* Bounds of the model *)

MaxLen == 3
MaxKey == 3
MaxBudget == 4
MaxUpdates == 2

(* The ref objects of the application: one per child position and one per *)
(* nested child; ref.current starts undefined.                             *)
NRefs == 2 * MaxLen

(* A time budget that never runs out in a run of this size. *)
Unbounded == 1000

NULL == 0

----------------------------------------------------------------------------
(* TAG bit flags (src/src/type: TAG.UPDATE / INSERT / MOVE / SVG) are      *)
(* tested with `op & TAG.X`; one op holds one flag, so a name suffices.    *)

UPDATE == "UPDATE"
INSERT == "INSERT"
MOVE == "MOVE"

NoAction == [op |-> "none", cur |-> NULL, ref |-> NULL]

(* Component types of the modelled application.                            *)
(*   L  keeps a child list in a state cell and renders <ul>{list}</ul>,    *)
(*      or <svg>{list}</svg> when its prop is 1                            *)
(*   F  a stateful component rendering one host child <s>                  *)
(*   M  memo(F)                                                            *)
(* Host types: root (the container fiber of render), ul, svg, a, s, and    *)
(* #text.                                                                  *)
isFn(type) == type \in {"L", "F", "M"}

isMemoType(type) == type = "M"

(* A view-tree descriptor as h() builds it. *)
createVnode(type, val, key, children) ==
    [type |-> type, key |-> key, val |-> val, children |-> children, ref |-> NULL]

(* h(type, {ref: r, ...}): r names a ref object {current} of the           *)
(* application.                                                            *)
withRef(v, r) == [v EXCEPT !.ref = r]

(* A property the object literal does not have reads undefined. *)
UNDEF == -1

(* createText: the literal has type and props only, so its key and its     *)
(* props.children read undefined.                                          *)
createText(v) ==
    [type |-> "#text", key |-> UNDEF, val |-> v, children |-> <<>>, ref |-> NULL]

(* What a component function returns for its props and state cell. *)
RenderOutput(type, props, state) ==
    IF type = "L"
    THEN <<createVnode(IF props.val = 1 THEN "svg" ELSE "ul", 0, NULL, state)>>
    ELSE <<createVnode("s", props.val + 10 * state, NULL, <<>>)>>

----------------------------------------------------------------------------
(* Host tree (the DOM operations the reconciler calls) *)

Throw(st, e) == [st EXCEPT !.err = e]

Failed(st) == st.err # ""

Emit(st, ev) == [st EXCEPT !.log = Append(@, ev)]

DomNode(kind, tag, attr) ==
    [kind |-> kind, tag |-> tag, attr |-> attr, parent |-> NULL,
     children |-> <<>>, ns |-> FALSE]

Without(s, x) == SelectSeq(s, LAMBDA y : y # x)

IndexOf(s, x) == CHOOSE i \in 1..Len(s) : s[i] = x

InsertAt(s, i, xs) == SubSeq(s, 1, i - 1) \o xs \o SubSeq(s, i, Len(s))

RECURSIVE IsInclusiveAncestor(_, _, _)
IsInclusiveAncestor(d, a, n) ==
    IF n = NULL THEN FALSE
    ELSE IF n = a THEN TRUE
    ELSE IsInclusiveAncestor(d, a, d[n].parent)

(* Node.insertBefore(child, ref) called on `p`. *)
insertBefore(st, p, c, r) ==
    IF p = NULL THEN Throw(st, "TypeError: insertBefore of null parent")
    ELSE IF c = NULL THEN Throw(st, "TypeError: child is not a Node")
    ELSE IF st.dom[p].kind = "comment"
         THEN Throw(st, "HierarchyRequestError")
    ELSE IF IsInclusiveAncestor(st.dom, c, p)
         THEN Throw(st, "HierarchyRequestError")
    ELSE IF r # NULL /\ st.dom[r].parent # p
         THEN Throw(st, "NotFoundError")
    ELSE
      LET d == st.dom
          moved == IF d[c].kind = "frag" THEN d[c].children ELSE <<c>>
          (* inserting a node before itself leaves it before its next sibling *)
          kept == SelectSeq(d[p].children,
                            LAMBDA y : \A i \in 1..Len(moved) : moved[i] # y)
          oldPos == IF r = NULL THEN 0 ELSE IndexOf(d[p].children, r)
          anchor == IF r = NULL THEN NULL
                    ELSE IF r # c THEN r
                    ELSE IF oldPos < Len(d[p].children)
                         THEN d[p].children[oldPos + 1] ELSE NULL
          pos == IF anchor = NULL THEN Len(kept) + 1 ELSE IndexOf(kept, anchor)
          isMoved(n) == \E i \in 1..Len(moved) : moved[i] = n
          d2 == [n \in DOMAIN d |->
                   IF n = p THEN [d[n] EXCEPT !.children = InsertAt(kept, pos, moved)]
                   ELSE IF n = c /\ d[c].kind = "frag"
                        THEN [d[n] EXCEPT !.children = <<>>]
                   ELSE LET withoutMoved ==
                              [d[n] EXCEPT !.children =
                                 SelectSeq(@, LAMBDA y : ~isMoved(y))]
                        IN IF isMoved(n) THEN [withoutMoved EXCEPT !.parent = p]
                           ELSE withoutMoved]
      IN [st EXCEPT !.dom = d2]

(* fiber.node.parentNode.removeChild(fiber.node) *)
removeChild(st, n) ==
    IF n = NULL THEN Throw(st, "TypeError: parentNode of null")
    ELSE IF st.dom[n].parent = NULL THEN Throw(st, "TypeError: removeChild of null")
    ELSE LET p == st.dom[n].parent
         IN [st EXCEPT !.dom[p].children = Without(@, n),
                       !.dom[n].parent = NULL]

(* updateElement: the attribute set of a node is one abstract value `val`  *)
(* (the nodeValue of a text node); it is written only when it changed and  *)
(* only on element and text nodes (comments and fragments have neither     *)
(* the property nor setAttribute).                                         *)
updateElement(st, n, aVal, bVal) ==
    IF aVal = bVal THEN st
    ELSE IF n = NULL THEN Throw(st, "TypeError: name in null")
    ELSE IF st.dom[n].kind \notin {"elem", "text"} THEN st
    ELSE [st EXCEPT !.dom[n].attr = bVal]

----------------------------------------------------------------------------
(* Work nodes *)

(* A vnode object as createVnode returns it; the walker later adds the     *)
(* linkage and bookkeeping fields to the same object.  `captured` and      *)
(* `renders` are history fields: whether / how often capture and the       *)
(* component function ran on this object.                                  *)
Fiber(v) ==
    [type |-> v.type, key |-> v.key, ref |-> v.ref,
     props |-> [val |-> v.val, children |-> v.children],
     kids |-> NULL, child |-> NULL, sibling |-> NULL, parent |-> NULL,
     node |-> NULL, action |-> NoAction, dirty |-> FALSE, isComp |-> FALSE,
     memo |-> FALSE, alternate |-> NULL, hooks |-> NULL, lane |-> 0,
     captured |-> FALSE, renders |-> 0]

FiberIds(st) == 1..Len(st.fib)

(* const hooks = current.hooks || (current.hooks = {list, effect, layout}) *)
(* list[0] is the state cell (its dispatcher bound to `owner`), list[1]    *)
(* the layout-effect hook, list[2] the effect hook; cleanL / cleanE tell   *)
(* whether the hook holds a cleanup function (e[2]).  layout / effect are  *)
(* the lengths of the pending queues hooks.layout / hooks.effect.          *)
HooksBag(owner, state) ==
    [owner |-> owner, state |-> state, layout |-> 0, effect |-> 0,
     cleanL |-> FALSE, cleanE |-> FALSE]

(* refer(ref, dom): ref.current = dom; a no-op without a ref. *)
refer(st, r, n) == IF r = NULL THEN st ELSE [st EXCEPT !.refs[r] = n]

(* kidsRefer(kids): the refs of all descendants are set to null, depth     *)
(* first; `kids?.forEach` skips a missing array but not a null entry.      *)
RECURSIVE kidsRefer(_, _, _)
kidsRefer(st, ks, i) ==
    IF Failed(st) \/ i > Len(ks) THEN st
    ELSE IF ks[i] = NULL THEN Throw(st, "TypeError: kids of null")
    ELSE kidsRefer(refer(IF st.fib[ks[i]].kids = NULL THEN st
                         ELSE kidsRefer(st, st.arr[st.fib[ks[i]].kids], 1),
                         st.fib[ks[i]].ref, NULL),
                   ks, i + 1)

(* The host branch of removeElement: detach on first entry, then the refs. *)
removeHost(st, f) ==
    refer(IF st.fib[f].kids = NULL THEN st
          ELSE kidsRefer(st, st.arr[st.fib[f].kids], 1),
          st.fib[f].ref, NULL)

detach(st, f) == removeChild(Emit(st, [e |-> "detach", f |-> f]), st.fib[f].node)

RECURSIVE removeElement(_, _, _)
RECURSIVE removeEach(_, _, _, _)
removeEach(st, ks, i, flag) ==
    IF Failed(st) \/ i > Len(ks) THEN st
    ELSE removeEach(removeElement(st, ks[i], flag), ks, i + 1, flag)

removeElement(st, f, flag) ==
    IF Failed(st) THEN st
    ELSE IF f = NULL THEN Throw(st, "TypeError: isComp of null")
    ELSE
      LET fb == st.fib[f]
          h == fb.hooks
          s1 == IF fb.isComp
                THEN IF h # NULL
                     THEN Emit(st, [e |-> "cleanup", f |-> f,
                                    n |-> (IF st.hk[h].cleanL THEN 1 ELSE 0)
                                          + (IF st.hk[h].cleanE THEN 1 ELSE 0)])
                     ELSE st
                ELSE removeHost(IF flag THEN detach(st, f) ELSE st, f)
          flag2 == IF fb.isComp THEN flag ELSE FALSE
      IN IF Failed(s1) \/ fb.kids = NULL THEN s1
         ELSE removeEach(s1, st.arr[fb.kids], 1, flag2)

(* function clone(a, b) *)
clone(st, a, b) ==
    [st EXCEPT !.fib[b].hooks = st.fib[a].hooks,
               !.fib[b].ref = st.fib[a].ref,
               !.fib[b].node = st.fib[a].node,
               !.fib[b].kids = st.fib[a].kids,
               !.fib[b].alternate = a]

(* A variant of same under which children without a key never match. *)
sameKeyed(st, a, b) ==
    /\ st.fib[a].key # NULL
    /\ st.fib[a].type = st.fib[b].type /\ st.fib[a].key = st.fib[b].key

(* diff.same *)
same(st, a, b) ==
    st.fib[a].type = st.fib[b].type /\ st.fib[a].key = st.fib[b].key

----------------------------------------------------------------------------
(* diff(aCh, bCh): `d` holds the locals of one call.  d.a names the old    *)
(* array (mutated in place), d.b is the new child list.  Indices are       *)
(* 1-based: aHead = 1 and aTail = length initially.                        *)

Reverse(s) == [i \in 1..Len(s) |-> s[Len(s) + 1 - i]]

At(s, i) == IF i \in 1..Len(s) THEN s[i] ELSE UNDEF

OldCh(d) == d.st.arr[d.a]

DiffThrow(d, e) == [d EXCEPT !.st = Throw(d.st, e)]

(* An index past the end of the old array reads undefined. *)
RefOf(aElm) == IF aElm = UNDEF THEN NULL ELSE aElm

(* The action objects diff pushes. *)
UpdateAction == [op |-> UPDATE, cur |-> NULL, ref |-> NULL]

(* A variant that puts the actions of the tail matches first. *)
TailFirst(d) == [st |-> d.st, actions |-> Reverse(d.temp) \o d.actions]

(* Returns the machine after the clones and removals, and the action list. *)
DiffResult(d) == [st |-> d.st, actions |-> d.actions \o Reverse(d.temp)]

(* A variant whose anchor is the inserted node itself. *)
InsertAtSelf(bElm, aElm) == [op |-> INSERT, cur |-> bElm, ref |-> bElm]

InsertAction(bElm, aElm) == [op |-> INSERT, cur |-> bElm, ref |-> RefOf(aElm)]

MoveAction(found, aElm) == [op |-> MOVE, cur |-> found, ref |-> aElm]

RECURSIVE TailMatch(_)
TailMatch(d) ==
    IF Failed(d.st) \/ ~(d.aHead <= d.aTail /\ d.bHead <= d.bTail) THEN d
    ELSE LET a == OldCh(d)[d.aTail]
             b == d.b[d.bTail]
         IN IF a = NULL THEN DiffThrow(d, "TypeError: type of null")
            ELSE IF ~same(d.st, a, b) THEN d
            ELSE TailMatch([d EXCEPT !.st = clone(d.st, a, b),
                                     !.temp = Append(@, UpdateAction),
                                     !.aTail = @ - 1, !.bTail = @ - 1])

RECURSIVE HeadMatch(_)
HeadMatch(d) ==
    IF Failed(d.st) \/ ~(d.aHead <= d.aTail /\ d.bHead <= d.bTail) THEN d
    ELSE LET a == OldCh(d)[d.aHead]
             b == d.b[d.bHead]
         IN IF a = NULL THEN DiffThrow(d, "TypeError: type of null")
            ELSE IF ~same(d.st, a, b) THEN d
            ELSE HeadMatch([d EXCEPT !.st = clone(d.st, a, b),
                                     !.actions = Append(@, UpdateAction),
                                     !.aHead = @ + 1, !.bHead = @ + 1])

(* for (i = head..tail) if (ch[i].key) map[ch[i].key] = i : a later index  *)
(* overwrites an earlier one; falsy keys are left out.                     *)
KeyMap(st, ch, head, tail) ==
    LET ks == {st.fib[ch[i]].key : i \in head..tail} \ {NULL, UNDEF}
    IN [k \in ks |-> CHOOSE i \in head..tail :
                        /\ st.fib[ch[i]].key = k
                        /\ \A j \in head..tail : st.fib[ch[j]].key = k => j <= i]

BuildMaps(d) ==
    IF Failed(d.st) THEN d
    ELSE IF \E i \in d.aHead..d.aTail : OldCh(d)[i] = NULL
         THEN DiffThrow(d, "TypeError: key of null")
    ELSE [d EXCEPT !.aMap = KeyMap(d.st, OldCh(d), d.aHead, d.aTail),
                   !.bMap = KeyMap(d.st, d.b, d.bHead, d.bTail)]

Lookup(map, k) == IF k \in DOMAIN map THEN map[k] ELSE NULL

RECURSIVE Middle(_)
Middle(d) ==
    IF Failed(d.st) \/ ~(d.aHead <= d.aTail \/ d.bHead <= d.bTail) THEN d
    ELSE
      LET aElm == At(OldCh(d), d.aHead)
          bElm == At(d.b, d.bHead)
      IN
      IF aElm = NULL THEN Middle([d EXCEPT !.aHead = @ + 1])
      ELSE IF d.bTail + 1 <= d.bHead THEN
        Middle([d EXCEPT
                  !.st = removeElement(Emit(d.st, [e |-> "remove", f |-> aElm]),
                                       aElm, TRUE),
                  !.aHead = @ + 1])
      ELSE IF d.aTail + 1 <= d.aHead THEN
        Middle([d EXCEPT
                  !.actions = Append(@, InsertAction(bElm, aElm)),
                  !.bHead = @ + 1])
      ELSE IF same(d.st, aElm, bElm) THEN
        Middle([d EXCEPT !.st = clone(d.st, aElm, bElm),
                         !.actions = Append(@, UpdateAction),
                         !.aHead = @ + 1, !.bHead = @ + 1])
      ELSE
        LET foundB == Lookup(d.bMap, d.st.fib[aElm].key)
            foundA == Lookup(d.aMap, d.st.fib[bElm].key)
        IN
        IF foundB = NULL THEN
          Middle([d EXCEPT
                    !.st = removeElement(Emit(d.st, [e |-> "remove", f |-> aElm]),
                                         aElm, TRUE),
                    !.aHead = @ + 1])
        ELSE IF foundA = NULL THEN
          Middle([d EXCEPT
                    !.actions = Append(@, InsertAction(bElm, aElm)),
                    !.bHead = @ + 1])
        ELSE IF OldCh(d)[foundA] = NULL THEN
          DiffThrow(d, "TypeError: hooks of null")
        ELSE
          LET src == OldCh(d)[foundA]
          IN Middle([d EXCEPT
                       !.st = [clone(d.st, src, bElm) EXCEPT !.arr[d.a][foundA] = NULL],
                       !.actions = Append(@, MoveAction(src, aElm)),
                       !.bHead = @ + 1])


diff(st, a, b) ==
    DiffResult(Middle(BuildMaps(HeadMatch(TailMatch(
        [st |-> st, a |-> a, b |-> b,
         aHead |-> 1, bHead |-> 1,
         aTail |-> Len(st.arr[a]), bTail |-> Len(b),
         aMap |-> <<>>, bMap |-> <<>>, temp |-> <<>>, actions |-> <<>>])))))

----------------------------------------------------------------------------
(* Scheduler: schedule / startTransition / task *)

(* translate(): queueMicrotask(cb) when translate was built by             *)
(* task(false), port2.postMessage(null) when built by task(true).  Each    *)
(* call arms one run of cb.                                                *)
translateCall(st) ==
    IF st.translate = "micro" THEN [st EXCEPT !.micro = @ + 1]
    ELSE [st EXCEPT !.macro = @ + 1]

(* A variant that arms a dispatch on the first push only. *)
startTransitionFirst(st, cb) ==
    LET pushed == [st EXCEPT !.trans = Append(@, cb)]
    IN IF Len(pushed.trans) = 1 THEN translateCall(pushed) ELSE pushed

(* transitions.push(cb) && translate() : push returns the new length,      *)
(* which is never 0.                                                       *)
startTransition(st, cb) ==
    LET pushed == [st EXCEPT !.trans = Append(@, cb)]
    IN IF Len(pushed.trans) # 0 THEN translateCall(pushed) ELSE pushed

(* Work items ever pushed onto the queue. *)
JobCount(st) == Len(SelectSeq(st.log, LAMBDA ev : ev.e = "schedule"))

(* queue.push({ callback }); startTransition(flush).  `id` is a history    *)
(* field naming the work item object.                                      *)
schedule(st, callback) ==
    startTransition(
        Emit([st EXCEPT !.queue = Append(@, [callback EXCEPT !.id = JobCount(st) + 1])],
             [e |-> "schedule", id |-> JobCount(st) + 1]),
        "flush")

(* The callbacks the code puts on the queue:                               *)
(*   () => reconcile(fiber) and its continuation reconcile.bind(null, f);  *)
(*   `rid` is a history field naming the update request, `root` the fiber  *)
(*   the request was made on;                                              *)
(*   () => side(fiber.hooks.effect);                                       *)
(*   null, what flush leaves on job.callback while the callback runs.      *)
ReconcileCb(f, root, rid) ==
    [k |-> "reconcile", f |-> f, root |-> root, rid |-> rid, id |-> 0]

EffectCb(f) == [k |-> "effect", f |-> f, root |-> NULL, rid |-> 0, id |-> 0]

NullCb == [k |-> "null", f |-> NULL, root |-> NULL, rid |-> 0, id |-> 0]

(* History: the proper ancestors of f along the parent links. *)
RECURSIVE Above(_, _)
Above(st, f) ==
    IF st.fib[f].parent = NULL THEN {}
    ELSE {st.fib[f].parent} \cup Above(st, st.fib[f].parent)

(* History: the request whose walk is under way (its continuation is the   *)
(* head of the queue) on an ancestor of f, or 0.                           *)
InFlightAbove(st, f) ==
    IF /\ st.queue # <<>>
       /\ st.queue[1].k = "reconcile"
       /\ st.queue[1].f # st.queue[1].root
       /\ st.queue[1].root \in Above(st, f)
    THEN st.queue[1].rid ELSE 0

update(st, f) ==
    IF ~st.fib[f].dirty
    THEN LET rid == st.nReq + 1
             s1 == [st EXCEPT !.fib[f].dirty = TRUE, !.nReq = rid]
         IN schedule(Emit(s1, [e |-> "update", f |-> f, rid |-> rid,
                               under |-> InFlightAbove(st, f)]),
                     ReconcileCb(f, f, rid))
    ELSE Emit(st, [e |-> "update", f |-> f, rid |-> 0, under |-> InFlightAbove(st, f)])

----------------------------------------------------------------------------
(* Commit engine *)

firstChild(st, n) ==
    IF n = NULL THEN NULL
    ELSE IF st.dom[n].children = <<>> THEN NULL
    ELSE st.dom[n].children[1]

NodeOf(st, f) == IF f = NULL THEN NULL ELSE st.fib[f].node

RECURSIVE commit(_, _)
RECURSIVE commitSibling(_, _)
commitSibling(st, f) ==
    IF Failed(st) THEN st
    ELSE IF f # NULL /\ st.fib[f].memo THEN commitSibling(st, st.fib[f].sibling)
    ELSE commit(st, f)

commit(st, f) ==
    IF Failed(st) \/ f = NULL THEN st
    ELSE
      LET s1 == commitSibling(refer(st, st.fib[f].ref, st.fib[f].node),
                              st.fib[f].child)
          fb == s1.fib[f]
          op == fb.action.op
          pn == NodeOf(s1, fb.parent)
          parent == IF pn # NULL /\ s1.dom[pn].kind = "comment"
                    THEN s1.dom[pn].parent ELSE pn
          comment == IF fb.isComp THEN firstChild(s1, fb.node) ELSE NULL
          s2 == IF op = INSERT \/ op = MOVE
                THEN LET ins == insertBefore(s1, parent, NodeOf(s1, fb.action.cur),
                                             NodeOf(s1, fb.action.ref))
                     IN IF Failed(ins) \/ ~fb.isComp THEN ins
                        ELSE [ins EXCEPT !.fib[f].node = comment]
                ELSE s1
          s3 == IF Failed(s2) \/ op # UPDATE THEN s2
                ELSE IF fb.alternate = NULL
                     THEN Throw(s2, "TypeError: props of undefined")
                ELSE updateElement(s2, s2.fib[f].node,
                                   s2.fib[fb.alternate].props.val, fb.props.val)
      IN IF Failed(s3) THEN s3
         ELSE commitSibling([s3 EXCEPT !.fib[f].action = NoAction,
                                       !.committed = @ \cup {f}],
                            fb.sibling)

----------------------------------------------------------------------------
(* Reconciliation walker *)

(* side(effects): every queued hook runs its cleanup, then its effect,     *)
(* whose return value becomes the new cleanup; the queue is emptied.  The  *)
(* callback that runs is the one stored by the latest render (hook[0] is   *)
(* overwritten on every render), so the event names that render's fiber.   *)
(* `which` is "layout" or "effect".                                        *)
side(st, h, which) ==
    IF h = NULL THEN Throw(st, "TypeError: effect of undefined")
    ELSE
      LET n == IF which = "layout" THEN st.hk[h].layout ELSE st.hk[h].effect
          g == st.hk[h].owner
          evs == [i \in 1..n |-> [e |-> which, f |-> g, done |-> g \in st.committed]]
          s1 == [st EXCEPT !.log = @ \o evs]
      IN IF n = 0 THEN st
         ELSE IF which = "layout"
              THEN [s1 EXCEPT !.hk[h].layout = 0, !.hk[h].cleanL = TRUE]
              ELSE [s1 EXCEPT !.hk[h].effect = 0, !.hk[h].cleanE = TRUE]

bubble(st, f) ==
    IF st.fib[f].isComp /\ st.fib[f].hooks # NULL
    THEN schedule(side(st, st.fib[f].hooks, "layout"), EffectCb(f))
    ELSE st

RECURSIVE Subtree(_, _)
Subtree(st, f) ==
    IF f = NULL THEN {}
    ELSE {f} \cup
         (IF st.fib[f].kids = NULL \/ st.fib[f].memo THEN {}
          ELSE UNION {Subtree(st, st.arr[st.fib[f].kids][i]) :
                        i \in 1..Len(st.arr[st.fib[f].kids])})

(* Returns the machine and the next fiber of the walk (NULL: finished). *)
RECURSIVE getSibling(_, _, _)
getSibling(st, f, job) ==
    IF Failed(st) \/ f = NULL THEN [st |-> st, next |-> NULL]
    ELSE
      LET s1 == bubble(st, f)
      IN IF s1.fib[f].dirty
         THEN LET s2 == Emit([s1 EXCEPT !.fib[f].dirty = FALSE],
                             [e |-> "commit", f |-> f, root |-> job.root,
                              rid |-> job.rid,
                              full |-> \A g \in Subtree(s1, f) : s1.fib[g].captured])
              IN [st |-> commit(s2, f), next |-> NULL]
         ELSE IF s1.fib[f].sibling # NULL
              THEN [st |-> s1, next |-> s1.fib[f].sibling]
              ELSE getSibling(s1, s1.fib[f].parent, job)

(* bCh = (fiber.kids = arrayfy(children)): the vnode objects become the    *)
(* new child fibers; then diff, then the stamping loop.                    *)
RECURSIVE Stamp(_, _, _, _, _)
Stamp(st, f, b, actions, i) ==
    IF i > Len(b) THEN st
    ELSE LET c == b[i]
             s1 == [st EXCEPT
                      !.fib[c].action = IF i <= Len(actions) THEN actions[i]
                                        ELSE NoAction,
                      !.fib[c].lane = IF st.fib[f].lane = 1 THEN 1 ELSE @,
                      !.fib[c].parent = f]
             s2 == IF i > 1 THEN [s1 EXCEPT !.fib[b[i - 1]].sibling = c]
                   ELSE [s1 EXCEPT !.fib[f].child = c]
         IN Stamp(s2, f, b, actions, i + 1)

(* The old nodes diff handed to removeElement since the log had length n. *)
Removed(st, n) ==
    LET evs == SelectSeq(SubSeq(st.log, n + 1, Len(st.log)), LAMBDA ev : ev.e = "remove")
    IN [i \in 1..Len(evs) |-> evs[i].f]

(* The stamping loop over the actions that diff returned as r; aCh is the  *)
(* old child list as it was before the diff.                               *)
(* The history of one diff: its lists, the actions it returned and the     *)
(* action each new child carries after the stamping loop.                  *)
Diffed(st, f, aCh, b, actions, removed) ==
    Emit(st, [e |-> "diff", f |-> f, a |-> aCh, b |-> b,
              actions |-> actions, removed |-> removed,
              stamped |-> [i \in 1..Len(b) |-> st.fib[b[i]].action]])

StampActions(r, f, aCh, b, n) ==
    IF Failed(r.st) THEN Emit(r.st, [e |-> "diffthrow", f |-> f, a |-> aCh, b |-> b])
    ELSE Diffed(Stamp(r.st, f, b, r.actions, 1), f, aCh, b, r.actions, Removed(r.st, n))

(* The part of reconcileChidren after the new child fibers b exist. *)
DiffChildren(st, f, a, b) ==
    StampActions(diff(st, a, b), f, st.arr[a], b, Len(st.log))

reconcileChidren(st, f, children) ==
    LET n == Len(st.fib)
        b == [i \in 1..Len(children) |-> n + i]
        hasOld == st.fib[f].kids # NULL
        a == IF hasOld THEN st.fib[f].kids ELSE Len(st.arr) + 1
        arr1 == IF hasOld THEN st.arr ELSE Append(st.arr, <<>>)
    IN DiffChildren([st EXCEPT
                       !.fib = [@ \o [i \in 1..Len(children) |-> Fiber(children[i])]
                                  EXCEPT ![f].kids = Len(arr1) + 1],
                       !.arr = Append(arr1, b)],
                    f, a, b)

(* fragment(fiber): a DocumentFragment holding one comment node. *)
fragment(st, f) ==
    LET n == Len(st.dom)
    IN [st EXCEPT !.dom = @ \o
          <<[DomNode("frag", "", 0) EXCEPT !.children = <<n + 2>>],
            [DomNode("comment", st.fib[f].type, 0) EXCEPT !.parent = n + 1]>>]

(* The component function runs with currentFiber = f: getSlot creates the  *)
(* hooks bag on first use, useState re-binds the dispatcher to f, and F /  *)
(* M register a layout effect and an effect without dependency list (so    *)
(* on every render).  L's state cell starts as props.children.             *)
updateHook(st, f) ==
    LET s1 == IF st.fib[f].node = NULL
              THEN [fragment(st, f) EXCEPT !.fib[f].node = Len(st.dom) + 1]
              ELSE st
        fb == s1.fib[f]
        fresh == fb.hooks = NULL
        h == IF fresh THEN Len(s1.hk) + 1 ELSE fb.hooks
        init == IF fb.type = "L" THEN fb.props.children ELSE 0
        s2 == IF fresh
              THEN [s1 EXCEPT !.hk = Append(@, HooksBag(f, init)), !.fib[f].hooks = h]
              ELSE [s1 EXCEPT !.hk[h].owner = f]
        s3 == IF fb.type = "L" THEN s2
              ELSE [s2 EXCEPT !.hk[h].layout = @ + 1, !.hk[h].effect = @ + 1]
        s4 == Emit([s3 EXCEPT !.fib[f].renders = @ + 1], [e |-> "render", f |-> f])
    IN reconcileChidren(s4, f, RenderOutput(fb.type, fb.props, s4.hk[h].state))

(* createElement(fiber): a new text node or element whose attributes are   *)
(* the props; `ns` tells whether createElementNS made it in the SVG        *)
(* namespace.                                                              *)
createElement(st, f) ==
    [st EXCEPT !.dom = Append(@, [DomNode(IF st.fib[f].type = "#text" THEN "text"
                                          ELSE "elem",
                                          st.fib[f].type, st.fib[f].props.val)
                                    EXCEPT !.ns = st.fib[f].type # "#text"
                                                  /\ st.fib[f].lane = 1]),
               !.fib[f].node = Len(st.dom) + 1]

updateHost(st, f) ==
    LET s1 == IF st.fib[f].node = NULL
              THEN createElement([st EXCEPT !.fib[f].lane =
                                     IF st.fib[f].type = "svg" THEN 1 ELSE @], f)
              ELSE st
    IN reconcileChidren(s1, f, s1.fib[f].props.children)

(* shouldUpdate(a, b): the props of the model are {val, children}; a       *)
(* component element written without children has no children entry.      *)
shouldUpdate(a, b) ==
    \/ a.val # b.val
    \/ a.children # <<>>
    \/ b.children # <<>>

isMemo(st, f) ==
    LET fb == st.fib[f]
    IN /\ isMemoType(fb.type)
       /\ fb.alternate # NULL
       /\ fb.type = st.fib[fb.alternate].type
       /\ ~shouldUpdate(fb.props, st.fib[fb.alternate].props)

(* fiber.memo = false; then updateHook or updateHost. *)
updateFiber(st, f) ==
    IF st.fib[f].isComp THEN updateHook([st EXCEPT !.fib[f].memo = FALSE], f)
    ELSE updateHost([st EXCEPT !.fib[f].memo = FALSE], f)

(* if (fiber.child) return fiber.child; return getSibling(fiber) *)
childOrSibling(st, f, job) ==
    IF Failed(st) THEN [st |-> st, next |-> NULL]
    ELSE IF st.fib[f].child # NULL THEN [st |-> st, next |-> st.fib[f].child]
    ELSE getSibling(st, f, job)

(* if (fiber.isComp && isMemo(fiber)) ... else ... *)
memoOrUpdate(st, f, job) ==
    IF st.fib[f].isComp /\ isMemo(st, f)
    THEN getSibling(Emit([st EXCEPT !.fib[f].memo = TRUE], [e |-> "memo", f |-> f]),
                    f, job)
    ELSE childOrSibling(updateFiber(st, f), f, job)

capture(st, f, job) ==
    memoOrUpdate([st EXCEPT !.fib[f].isComp = isFn(st.fib[f].type),
                            !.fib[f].captured = TRUE,
                            !.committed = @ \ {f}],
                 f, job)

(* shouldYield() is getTime() >= deadline.  Time only moves forward, so    *)
(* within one flush the answers are `false` some number of times and then  *)
(* `true` for good: st.fuel counts the `false` answers still to come.      *)
shouldYield(st) == st.fuel = 0

Tick(st) == [st EXCEPT !.fuel = @ - 1]

(* A variant that resumes the walk at the node of the request. *)
Restart(callback, f) == [callback EXCEPT !.f = callback.root]

(* reconcile.bind(null, fiber): the callback that resumes the walk at f. *)
Continuation(callback, f) == [callback EXCEPT !.f = f]

(* reconcile(fiber): returns the machine and the continuation (NULL when   *)
(* the walk is over).                                                      *)
RECURSIVE reconcile(_, _, _)
RECURSIVE reconcileNext(_, _)
reconcile(st, f, job) ==
    IF Failed(st) \/ f = NULL THEN [st |-> st, next |-> NULL]
    ELSE IF shouldYield(st) THEN [st |-> st, next |-> f]
    ELSE reconcileNext(capture(Tick(st), f, job), job)

(* fiber = capture(fiber): the loop goes on with what capture returned. *)
reconcileNext(r, job) == reconcile(r.st, r.next, job)

----------------------------------------------------------------------------
(* flush *)

RunCallback(st, cb) ==
    IF cb.k = "reconcile" THEN reconcile(st, cb.f, cb)
    ELSE [st |-> side(st, st.fib[cb.f].hooks, "effect"), next |-> NULL]

(* History: the first invocation of the work item `id`. *)
invoked(st, id) ==
    IF \E i \in 1..Len(st.log) : st.log[i].e = "run" /\ st.log[i].id = id THEN st
    ELSE Emit(st, [e |-> "run", id |-> id])

RECURSIVE FlushLoop(_)
RECURSIVE FlushNext(_, _)
FlushLoop(st) ==
    IF Failed(st) \/ st.queue = <<>> \/ shouldYield(st) THEN st
    ELSE IF st.queue[1].k = "null"
         THEN Throw(Tick(st), "TypeError: callback is not a function")
    ELSE FlushNext(RunCallback(invoked([Tick(st) EXCEPT !.queue[1] =
                                           [NullCb EXCEPT !.id = st.queue[1].id]],
                                       st.queue[1].id),
                               st.queue[1]),
                   st.queue[1])

(* A variant that puts the unfinished work item back at the tail. *)
requeue(st, next) == [st EXCEPT !.queue = Append(Tail(@), next)]

(* job.callback = next : the work item stays where it is. *)
keep(st, next) == [st EXCEPT !.queue[1] = next]

(* queue.shift() *)
shift(st) == Emit([st EXCEPT !.queue = Tail(@)], [e |-> "done", id |-> st.queue[1].id])

(* The exception of callback() leaves flush; the history notes whose. *)
thrown(st, callback) == Emit(st, [e |-> "fail", id |-> callback.id])

(* const next = callback(); next ? (job.callback = next) : queue.shift() *)
FlushNext(r, callback) ==
    IF Failed(r.st) THEN thrown(r.st, callback)
    ELSE IF r.next # NULL
         THEN FlushLoop(keep(r.st, Continuation(callback, r.next)))
         ELSE FlushLoop(shift(r.st))

(* task(pending) *)
task(pending) == IF pending THEN "macro" ELSE "micro"

(* peek(queue) && (translate = task(shouldYield())) && startTransition(flush) *)
rearm(st) ==
    IF Failed(st) \/ st.queue = <<>> THEN st
    ELSE startTransition([st EXCEPT !.translate = task(shouldYield(st))], "flush")

flush(st) == rearm(FlushLoop(st))

----------------------------------------------------------------------------
(* The machine record of the current state, and its installation *)

Machine ==
    [fib |-> fibers, arr |-> arrays, hk |-> hooks, dom |-> dom,
     queue |-> queue, trans |-> transitions, translate |-> translate,
     micro |-> micro, macro |-> macro, log |-> log, committed |-> committed,
     nReq |-> nReq, refs |-> refs, err |-> "", fuel |-> 0]

Install(st) ==
    /\ fibers' = st.fib
    /\ arrays' = st.arr
    /\ hooks' = st.hk
    /\ dom' = st.dom
    /\ queue' = st.queue
    /\ transitions' = st.trans
    /\ translate' = st.translate
    /\ micro' = st.micro
    /\ macro' = st.macro
    /\ log' = st.log
    /\ committed' = st.committed
    /\ nReq' = st.nReq
    /\ refs' = st.refs
    /\ lastErr' = st.err

(* One armed run of cb = () => transitions.splice(0, 1).forEach(c => c()). *)
(* Microtasks run before any message or timer task.  Every callback on     *)
(* transitions is flush; flush starts with deadline = getTime() +          *)
(* threshold, i.e. with `budget` answers `false` of shouldYield ahead.     *)
cb(st, budget) ==
    LET s1 == IF st.micro > 0 THEN [st EXCEPT !.micro = @ - 1]
              ELSE [st EXCEPT !.macro = @ - 1]
    IN IF s1.trans = <<>> THEN s1
       ELSE flush([s1 EXCEPT !.trans = Tail(@), !.fuel = budget, !.err = ""])

Pending(st) == st.micro + st.macro > 0

(* The run to quiescence in which the time budget never expires. *)
RECURSIVE RunUninterrupted(_)
RunUninterrupted(st) ==
    IF ~Pending(st) THEN st ELSE RunUninterrupted(cb(st, Unbounded))

(* The work tree, the host tree and the history of diffs, effects and      *)
(* commits, without the scheduler's own state.                             *)
Outcome(st) ==
    [fib |-> st.fib, arr |-> st.arr, hk |-> st.hk, dom |-> st.dom,
     log |-> SelectSeq(st.log, LAMBDA ev : ev.e \notin {"schedule", "run", "done", "fail"}),
     committed |-> st.committed, refs |-> st.refs, err |-> st.err]

(* No reference run is on record. *)
NoOutcome ==
    [fib |-> <<>>, arr |-> <<>>, hk |-> <<>>, dom |-> <<>>,
     log |-> <<>>, committed |-> {}, refs |-> <<>>, err |-> ""]

----------------------------------------------------------------------------
(* Inputs *)

Keys == 0..MaxKey

(* Child types of the lists: a host element and a component. *)
ItemTypes == {"a", "F"}

Items == {createVnode(t, 0, k, <<>>) : t \in ItemTypes, k \in Keys}

(* diff looks at keys only through equality, so one list stands for all    *)
(* its renamings of keys: the keys of a list appear in increasing order    *)
(* of first use (1, then 2, ...); 0 is the absent key.                     *)
MaxKeyOf(l) == IF l = <<>> THEN 0
               ELSE CHOOSE k \in Keys : (\E i \in 1..Len(l) : l[i].key = k)
                                        /\ (\A i \in 1..Len(l) : l[i].key <= k)

RECURSIVE ListsUpTo(_)
ListsUpTo(n) ==
    IF n = 0 THEN {<<>>}
    ELSE LET shorter == ListsUpTo(n - 1)
         IN shorter \cup
            UNION {{Append(l, x) : x \in {y \in Items : y.key <= MaxKeyOf(l) + 1}} :
                     l \in {t \in shorter : Len(t) = n - 1}}

Lists == ListsUpTo(MaxLen)

PermsOf(l) ==
    {[i \in 1..Len(l) |-> l[p[i]]] :
       p \in {q \in [1..Len(l) -> 1..Len(l)] :
                \A i, j \in 1..Len(l) : q[i] = q[j] => i = j}}

(* The new child lists a state change of L is tried with. *)
Edits(l) ==
    PermsOf(l)
      \cup {Append(l, x) : x \in Items}
      \cup (IF l = <<>> THEN {} ELSE {SubSeq(l, 1, Len(l) - 1)})

(* The lists of the application checked with slicing and racing updates. *)
AppLists ==
    {<<createVnode("F", 0, 1, <<>>), createVnode("M", 0, 2, <<>>)>>}

----------------------------------------------------------------------------
(* Initial state: the module has been loaded, the container exists. *)

Init ==
    /\ fibers = <<>>
    /\ arrays = <<>>
    /\ hooks = <<>>
    /\ dom = <<DomNode("elem", "container", 0)>>
    /\ queue = <<>>
    /\ transitions = <<>>
    /\ translate = task(FALSE)
    /\ micro = 0
    /\ macro = 0
    /\ rootFiber = NULL
    /\ log = <<>>
    /\ committed = {}
    /\ lastErr = ""
    /\ nUpdates = 0
    /\ nReq = 0
    /\ expected = NoOutcome
    /\ envTick = FALSE
    /\ turn = FALSE
    /\ refs = [r \in 1..NRefs |-> UNDEF]

(* A new event handler starts only when no microtask is pending; a running *)
(* handler may make several calls in a row.                                *)
EnvMayCall == micro = 0 \/ envTick

(* Some work item has begun to run and is still queued. *)
Started == \E i \in 1..Len(queue) : queue[i].k # "reconcile" \/ queue[i].f # queue[i].root

(* Node.nodeName of an HTML document: the upper-cased tag of an element,   *)
(* "#text" of a text node.                                                 *)
nodeName(node) ==
    IF node.kind = "text" THEN "#text"
    ELSE IF node.kind = "comment" THEN "#comment"
    ELSE CASE node.tag = "a" -> "A"
           [] node.tag = "s" -> "S"
           [] node.tag = "ul" -> "UL"
           [] OTHER -> node.tag

toLowerCase(name) ==
    CASE name = "A" -> "a"
      [] name = "S" -> "s"
      [] name = "UL" -> "ul"
      [] OTHER -> name

(* node.nodeValue.trim() === '' : the model's text 0 is white space only. *)
isBlank(node) == node.kind = "text" /\ node.attr = 0

(* recycleNode(node): the vnode of an existing host node, bound to it.     *)
(* An element's vnode has props.children (the vnodes of its element and    *)
(* non-blank text children) and no attribute, a text node's vnode has      *)
(* props.nodeValue; key and ref are null, and no `kids` is set.  The       *)
(* result is the machine and the vnode's identity.                         *)
RECURSIVE recycleNode(_, _)
RECURSIVE recycleEach(_, _, _, _)
RECURSIVE recycleNext(_, _, _, _)
recycled(r, n, val) ==
    [st |-> [r.st EXCEPT !.fib = Append(@,
                [Fiber(createVnode(toLowerCase(nodeName(r.st.dom[n])), val, NULL, r.ids))
                   EXCEPT !.node = n])],
     v |-> Len(r.st.fib) + 1]

recycleNext(r, nodes, i, acc) == recycleEach(r.st, nodes, i, Append(acc, r.v))

recycleEach(st, nodes, i, acc) ==
    IF i > Len(nodes) THEN [st |-> st, ids |-> acc]
    ELSE IF isBlank(st.dom[nodes[i]]) THEN recycleEach(st, nodes, i + 1, acc)
    ELSE recycleNext(recycleNode(st, nodes[i]), nodes, i + 1, acc)

recycleNode(st, n) ==
    IF st.dom[n].kind = "text"
    THEN recycled([st |-> st, ids |-> <<>>], n, st.dom[n].attr)
    ELSE recycled(recycleEach(st, st.dom[n].children, 1, <<>>), n, UNDEF)

(* rootFiber = {node, props: {children: vnode}, kids: <recycled children>} *)
(* then update(rootFiber); r is the recycling of the container's children  *)
(* (the container's own vnode is dropped).                                 *)
mountRoot(r, view) ==
    update([r.st EXCEPT
              !.fib = Append(@, [Fiber(createVnode("root", 0, NULL, view))
                                   EXCEPT !.node = 1, !.kids = Len(r.st.arr) + 1]),
              !.arr = Append(@, r.ids)],
           Len(r.st.fib) + 1)

(* render(vnode, node) with node the container (host node 1). *)
render(st, view) == mountRoot(recycleEach(st, st.dom[1].children, 1, <<>>), view)

(* The outcome of running st to quiescence without interruption. *)
Reference(st, track) == IF track THEN Outcome(RunUninterrupted(st)) ELSE NoOutcome

Rendered(st, track) ==
    /\ Install(st)
    /\ rootFiber' = Len(st.fib)
    /\ expected' = Reference(st, track)

RenderView(view, track) ==
    /\ rootFiber = NULL
    /\ EnvMayCall
    /\ Rendered(render(Machine, view), track)
    /\ envTick' = TRUE
    /\ UNCHANGED <<nUpdates, turn>>

Render(list, track) == RenderView(<<createVnode("L", 0, NULL, list)>>, track)

(* The dispatcher of a state cell: hook[0] = v; update(current), where     *)
(* `current` is the fiber of the render that created the dispatcher        *)
(* closure; callers may hold the dispatcher of any past render.            *)
dispatch(st, f, v) ==
    update([st EXCEPT !.hk[st.fib[f].hooks].state = v], f)

Dispatched(st, track) ==
    /\ Install(st)
    /\ expected' = Reference(st, track /\ ~Started /\ expected # NoOutcome)

SetState(f, v, track) ==
    /\ EnvMayCall
    /\ f \in 1..Len(fibers)
    /\ fibers[f].renders > 0
    /\ fibers[f].type = "L" \/ hooks[fibers[f].hooks].state # v
    /\ Dispatched(dispatch(Machine, f, v), track)
    /\ envTick' = TRUE
    /\ nUpdates' = nUpdates + 1
    /\ UNCHANGED <<rootFiber, turn>>

RunArmed(budget) ==
    /\ micro + macro > 0
    /\ Install(cb(Machine, budget))
    /\ envTick' = FALSE
    /\ UNCHANGED <<rootFiber, nUpdates, expected>>

Dispatch(budget) == RunArmed(budget) /\ UNCHANGED turn

----------------------------------------------------------------------------
(* Specifications *)

Budgets == (0..MaxBudget) \cup {Unbounded}

ListFibers == {f \in 1..Len(fibers) : fibers[f].type = "L"}

(* The application under slicing and racing state changes: L toggles its   *)
(* list between the rendered order and the reversed one, F and M flip a    *)
(* bit.                                                                    *)
NextState(f) ==
    IF fibers[f].type = "L" THEN Reverse(hooks[fibers[f].hooks].state)
    ELSE 1 - hooks[fibers[f].hooks].state

AppRender == \E l \in AppLists : Render(l, TRUE)

AppSetState ==
    /\ nUpdates < MaxUpdates
    /\ \E f \in 1..Len(fibers) : fibers[f].isComp /\ SetState(f, NextState(f), TRUE)

Slice == \E b \in Budgets : Dispatch(b)

Next == AppRender \/ AppSetState \/ Slice

Spec == Init /\ [][Next]_vars

(* The application when every armed dispatch eventually runs and every     *)
(* slice leaves time for a capture: flush asks shouldYield once before it  *)
(* calls the work item and reconcile once before each capture.             *)
FairBudgets == {b \in Budgets : b >= 2}

(* `turn` flips with every slice of this specification and with nothing   *)
(* else.                                                                   *)
FairSlice == \E b \in FairBudgets : RunArmed(b) /\ turn' = ~turn

NextFair == AppRender \/ AppSetState \/ FairSlice

(* FairSlice is enabled exactly when a run of cb is armed and it is the    *)
(* only action that flips turn, so weak fairness of Armed is weak fairness *)
(* of FairSlice: an armed run of cb eventually executes.                   *)
Armed == micro + macro > 0 /\ turn' = ~turn

SpecFair == Init /\ [][NextFair]_vars /\ WF_turn(Armed)

(* One change of a child list, run without time pressure. *)
Mount == \E l \in Lists : Render(l, FALSE)

SetList ==
    /\ nUpdates = 0
    /\ micro + macro = 0
    /\ \E f \in ListFibers : \E l \in Edits(hooks[fibers[f].hooks].state) :
          SetState(f, l, FALSE)

Run == Dispatch(Unbounded)

NextDiff == Mount \/ SetList \/ Run

SpecDiff == Init /\ [][NextDiff]_vars

(* A component is dropped from the end of the list while a state change   *)
(* of that component is requested, under slicing.                          *)
RemLists == {l \in Lists : Len(l) \in 1..2 /\ l[Len(l)].type = "F"}

RemMount == \E l \in RemLists : Render(l, FALSE)

RemSetList ==
    /\ nUpdates < MaxUpdates
    /\ \E f \in ListFibers :
          /\ fibers[f].renders > 0
          /\ hooks[fibers[f].hooks].state # <<>>
          /\ SetState(f, SubSeq(hooks[fibers[f].hooks].state, 1,
                                Len(hooks[fibers[f].hooks].state) - 1), FALSE)

RemSetChild ==
    /\ nUpdates < MaxUpdates
    /\ \E f \in 1..Len(fibers) : fibers[f].type = "F" /\ SetState(f, NextState(f), FALSE)

NextRemove == RemMount \/ RemSetList \/ RemSetChild \/ Slice

SpecRemove == Init /\ [][NextRemove]_vars

(* Rehydration: the container holds server-made markup of the view (with   *)
(* or without a leading blank text node) when render is called; the view   *)
(* is unkeyed host elements and texts, one level nested.                   *)
Leaves == {createVnode("s", 0, NULL, <<>>), createText(1)}

HostItems ==
    {createText(1)} \cup
    {createVnode("a", 0, NULL, c) : c \in {<<>>} \cup {<<x>> : x \in Leaves}}

(* Adjacent texts would be one text node in the markup. *)
Views ==
    {<<x>> : x \in HostItems} \cup
    {v \in {<<x, y>> : x, y \in HostItems} : v[1].type # "#text" \/ v[2].type # "#text"}

(* The HTML parser building the host nodes of `view` under node p. *)
RECURSIVE Parse(_, _, _, _)
Parse(d, p, view, i) ==
    IF i > Len(view) THEN d
    ELSE Parse(Parse([Append(d, [DomNode(IF view[i].type = "#text" THEN "text"
                                         ELSE "elem", view[i].type, view[i].val)
                                   EXCEPT !.parent = p])
                        EXCEPT ![p].children = Append(@, Len(d) + 1)],
                     Len(d) + 1, view[i].children, 1),
               p, view, i + 1)

Blank(d) ==
    [Append(d, [DomNode("text", "#text", 0) EXCEPT !.parent = 1])
       EXCEPT ![1].children = Append(@, Len(d) + 1)]

Markup ==
    /\ rootFiber = NULL
    /\ Len(dom) = 1
    /\ \E view \in Views : \E blank \in {FALSE, view[1].type # "#text"} :
          dom' = Parse(IF blank THEN Blank(dom) ELSE dom, 1, view, 1)
    /\ UNCHANGED <<fibers, arrays, hooks, queue, transitions, translate,
                   micro, macro, rootFiber, log, committed, lastErr, nUpdates,
                   nReq, expected, envTick, turn, refs>>

(* The view whose markup the host tree d holds under node p. *)
RECURSIVE ViewOf(_, _, _)
ViewOf(d, nodes, i) ==
    IF i > Len(nodes) THEN <<>>
    ELSE IF isBlank(d[nodes[i]]) THEN ViewOf(d, nodes, i + 1)
    ELSE <<IF d[nodes[i]].kind = "text" THEN createText(d[nodes[i]].attr)
           ELSE createVnode(d[nodes[i]].tag, d[nodes[i]].attr, NULL,
                            ViewOf(d, d[nodes[i]].children, 1))>>
         \o ViewOf(d, nodes, i + 1)

Hydrate ==
    /\ rootFiber = NULL
    /\ Len(dom) > 1
    /\ EnvMayCall
    /\ Rendered(render(Emit(Machine, [e |-> "hydrate", dom |-> dom]),
                       ViewOf(dom, dom[1].children, 1)), FALSE)
    /\ envTick' = TRUE
    /\ UNCHANGED <<nUpdates, turn>>

(* An svg subtree: L renders <svg>{list}</svg>; the list holds elements,   *)
(* with or without a child element, and components; later a child is      *)
(* appended to the list or a component changes its state.                  *)
SvgItems ==
    {createVnode("a", 0, NULL, c) : c \in {<<>>, <<createVnode("s", 0, NULL, <<>>)>>}}
      \cup {createVnode("F", 0, NULL, <<>>)}

SvgLists == {<<>>} \cup {<<x>> : x \in SvgItems} \cup {<<x, y>> : x, y \in SvgItems}

SvgMount == \E l \in SvgLists : RenderView(<<createVnode("L", 1, NULL, l)>>, FALSE)

SvgAppend ==
    /\ nUpdates < MaxUpdates
    /\ \E f \in ListFibers :
          /\ fibers[f].renders > 0
          /\ Len(hooks[fibers[f].hooks].state) < MaxLen
          /\ \E x \in SvgItems : SetState(f, Append(hooks[fibers[f].hooks].state, x), FALSE)

SvgSetChild ==
    /\ nUpdates < MaxUpdates
    /\ \E f \in 1..Len(fibers) : fibers[f].type = "F" /\ SetState(f, NextState(f), FALSE)

NextSvg == SvgMount \/ SvgAppend \/ SvgSetChild \/ Run

SpecSvg == Init /\ [][NextSvg]_vars

(* Teardown: L renders <ul>{list}</ul>; child i of the list has key i and  *)
(* ref object i, its nested child ref object MaxLen + i.  The children     *)
(* are a host, a host over a host, a host over a component, or a           *)
(* component (which renders a host).  Later L drops one child.             *)
TearItem(shape, i) ==
    CASE shape = "host" -> withRef(createVnode("a", 0, i, <<>>), i)
      [] shape = "host/host" ->
           withRef(createVnode("a", 0, i,
                     <<withRef(createVnode("s", 0, NULL, <<>>), MaxLen + i)>>), i)
      [] shape = "host/comp" ->
           withRef(createVnode("a", 0, i,
                     <<withRef(createVnode("F", 0, NULL, <<>>), MaxLen + i)>>), i)
      [] OTHER -> withRef(createVnode("F", 0, i, <<>>), i)

Shapes == {"host", "host/host", "host/comp", "comp"}

TearLists ==
    {<<TearItem(x, 1)>> : x \in Shapes}
      \cup {<<TearItem(x, 1), TearItem(y, 2)>> : x, y \in Shapes}

TearMount == \E l \in TearLists : Render(l, FALSE)

DropAt(l, j) == SubSeq(l, 1, j - 1) \o SubSeq(l, j + 1, Len(l))

TearDrop ==
    /\ nUpdates < MaxUpdates
    /\ \E f \in ListFibers :
          /\ fibers[f].renders > 0
          /\ \E j \in 1..Len(hooks[fibers[f].hooks].state) :
                SetState(f, DropAt(hooks[fibers[f].hooks].state, j), FALSE)

NextTeardown == TearMount \/ TearDrop \/ Slice

SpecTeardown == Init /\ [][NextTeardown]_vars

(* Any child list with pairwise-distinct keys replaced by any other: the   *)
(* children are hosts and components with an attribute value 0 or 1.       *)
KeyedItems == {createVnode(t, v, k, <<>>) : t \in ItemTypes, v \in {0, 1}, k \in 1..MaxKey}

KeyedLists ==
    {l \in UNION {[1..n -> KeyedItems] : n \in 0..MaxLen} :
       \A i, j \in 1..Len(l) : l[i].key = l[j].key => i = j}

KeyedMount ==
    \E l \in {t \in Lists : \A i, j \in 1..Len(t) :
                               t[i].key # NULL /\ (t[i].key = t[j].key => i = j)} :
       Render(l, FALSE)

KeyedSetList ==
    /\ nUpdates = 0
    /\ micro + macro = 0
    /\ \E f \in ListFibers : \E l \in KeyedLists : SetState(f, l, FALSE)

NextKeyed == KeyedMount \/ KeyedSetList \/ Run

SpecKeyed == Init /\ [][NextKeyed]_vars

NextHydrate == Markup \/ Hydrate \/ Slice

SpecHydrate == Init /\ [][NextHydrate]_vars

----------------------------------------------------------------------------
(* Vocabulary of the properties *)

Quiescent == micro + macro = 0

DiffEvents == {i \in 1..Len(log) : log[i].e = "diff"}

(* The diffs of the child list of <ul>. *)
ListDiffs == {i \in DiffEvents : fibers[log[i].f].type = "ul"}

IsLatestListDiff(i) == i \in ListDiffs /\ \A j \in ListDiffs : j <= i

SameItem(x, y) == fibers[x].type = fibers[y].type /\ fibers[x].key = fibers[y].key

NoNulls(a) == \A i \in 1..Len(a) : a[i] # NULL

AllUpdates(ev, n) ==
    /\ Len(ev.actions) >= n
    /\ \A j \in 1..n : ev.actions[j].op = UPDATE

(* New child j carries the state of old child j. *)
CarriesOwnState(ev, n) ==
    \A j \in 1..n : /\ fibers[ev.b[j]].alternate = ev.a[j]
                    /\ fibers[ev.b[j]].hooks = fibers[ev.a[j]].hooks

RECURSIVE Concat(_)
Concat(ss) == IF ss = <<>> THEN <<>> ELSE Head(ss) \o Concat(Tail(ss))

(* The host elements a work node stands for, in document order: its own    *)
(* element, or for a component those of its rendered children.             *)
RECURSIVE HostElems(_)
HostElems(f) ==
    IF f = NULL THEN <<>>
    ELSE IF ~isFn(fibers[f].type) THEN <<fibers[f].node>>
    ELSE IF fibers[f].kids = NULL THEN <<>>
    ELSE Concat([i \in 1..Len(arrays[fibers[f].kids]) |->
                   HostElems(arrays[fibers[f].kids][i])])

(* Every host handle bound in the subtree of a work node. *)
RECURSIVE Handles(_)
Handles(f) ==
    IF f = NULL THEN {}
    ELSE (IF fibers[f].node = NULL THEN {} ELSE {fibers[f].node}) \cup
         (IF fibers[f].kids = NULL THEN {}
          ELSE UNION {Handles(arrays[fibers[f].kids][i]) :
                        i \in 1..Len(arrays[fibers[f].kids])})

ElementChildren(n) == SelectSeq(dom[n].children, LAMBDA c : dom[c].kind = "elem")

Attached(n) == IsInclusiveAncestor(dom, 1, n)

Keyed(a) == \A i \in 1..Len(a) : fibers[a[i]].key # NULL

DistinctKeys(a) ==
    \A i, j \in 1..Len(a) : fibers[a[i]].key = fibers[a[j]].key => i = j

IsPermutation(a, b) ==
    /\ Len(a) = Len(b)
    /\ \A j \in 1..Len(b) : \E i \in 1..Len(a) : SameItem(a[i], b[j])

IsSameList(a, b) ==
    /\ Len(a) = Len(b)
    /\ \A j \in 1..Len(b) : SameItem(a[j], b[j])

IsAppend(a, b) ==
    /\ Len(b) = Len(a) + 1
    /\ \A j \in 1..Len(a) : SameItem(a[j], b[j])

IsDropLast(a, b) ==
    /\ Len(a) = Len(b) + 1
    /\ \A j \in 1..Len(b) : SameItem(a[j], b[j])

----------------------------------------------------------------------------
(* C3 (as claimed): key stability.  For an old child list with pairwise    *)
(* distinct keys, of host or component children, and a new list that is a  *)
(* permutation of it, diff removes no node, emits only MOVE and UPDATE,    *)
(* and once the flush has run the host elements of the parent are in the   *)
(* order of the new list.                                                  *)
C3_Stable(i) ==
    LET ev == log[i]
    IN (NoNulls(ev.a) /\ Keyed(ev.a) /\ DistinctKeys(ev.a) /\ IsPermutation(ev.a, ev.b))
         => /\ ev.removed = <<>>
            /\ Len(ev.actions) = Len(ev.b)
            /\ \A j \in 1..Len(ev.b) : ev.actions[j].op \in {MOVE, UPDATE}
            /\ (IsLatestListDiff(i) /\ Quiescent)
                 => ElementChildren(fibers[ev.f].node)
                      = Concat([j \in 1..Len(ev.b) |-> HostElems(ev.b[j])])

C3_KeyStability == \A i \in ListDiffs : C3_Stable(i)

(* The same for lists of host children only (not a claim of the spec). *)
KeyStabilityOfHosts ==
    \A i \in ListDiffs :
       (\A j \in 1..Len(log[i].b) : ~isFn(fibers[log[i].b[j]].type)) => C3_Stable(i)

(* C4: no-op diff.  Diffing a child list against a new list with the same  *)
(* types and keys in the same order returns one UPDATE per child, no       *)
(* INSERT or MOVE, removes nothing, and clones old child i into new child  *)
(* i at every position.                                                    *)
C4_NoOpDiff ==
    \A i \in DiffEvents :
       LET ev == log[i]
       IN (NoNulls(ev.a) /\ IsSameList(ev.a, ev.b))
            => /\ Len(ev.actions) = Len(ev.b)
               /\ AllUpdates(ev, Len(ev.b))
               /\ ev.removed = <<>>
               /\ CarriesOwnState(ev, Len(ev.b))

(* A list of three children, keyed and unkeyed, was diffed against itself. *)
C4_Witness ==
    \E i \in ListDiffs :
       /\ Len(log[i].a) = 3 /\ NoNulls(log[i].a) /\ IsSameList(log[i].a, log[i].b)
       /\ \E j, k \in 1..3 : fibers[log[i].a[j]].key # NULL /\ fibers[log[i].a[k]].key = NULL
       /\ Quiescent /\ lastErr = ""

(* C5 (as claimed): pure insert.  When the new list is the old list plus   *)
(* one child B at the end, every old child gets an UPDATE carrying its own *)
(* old state and B a single INSERT with anchor null, with or without keys  *)
(* and whatever B's type.                                                  *)
C5_Inserted(ev) ==
    LET n == Len(ev.a)
    IN /\ Len(ev.actions) = n + 1
       /\ AllUpdates(ev, n)
       /\ CarriesOwnState(ev, n)
       /\ ev.actions[n + 1] = [op |-> INSERT, cur |-> ev.b[n + 1], ref |-> NULL]

C5_PureInsert ==
    \A i \in DiffEvents :
       (NoNulls(log[i].a) /\ IsAppend(log[i].a, log[i].b)) => C5_Inserted(log[i])

(* C5 (amended): the same, provided B differs in type or key from the old  *)
(* last child.                                                             *)
C5_PureInsertOfDistinct ==
    \A i \in DiffEvents :
       LET ev == log[i]
       IN (/\ NoNulls(ev.a) /\ IsAppend(ev.a, ev.b)
           /\ (ev.a = <<>> \/ ~SameItem(ev.a[Len(ev.a)], ev.b[Len(ev.b)])))
            => C5_Inserted(ev)

(* A child was appended to a list of two, and the flush completed. *)
C5_Witness ==
    \E i \in ListDiffs :
       LET ev == log[i]
       IN /\ Len(ev.a) = 2 /\ NoNulls(ev.a) /\ IsAppend(ev.a, ev.b)
          /\ ~SameItem(ev.a[2], ev.b[3])
          /\ fibers[ev.b[3]].key = NULL
          /\ Quiescent /\ lastErr = ""

(* C6 (as claimed): pure removal.  When the new list is the old list       *)
(* without its last child B, removeElement is called on B's old work node  *)
(* and on no other, B's host handles are detached from the host tree, and  *)
(* every surviving child is matched to its own old node with an UPDATE.    *)
C6_PureRemoval ==
    \A i \in DiffEvents :
       LET ev == log[i]
           n == Len(ev.b)
       IN (NoNulls(ev.a) /\ IsDropLast(ev.a, ev.b))
            => /\ ev.removed = <<ev.a[n + 1]>>
               /\ \A h \in Handles(ev.a[n + 1]) : ~Attached(h)
               /\ Len(ev.actions) = n
               /\ AllUpdates(ev, n)
               /\ CarriesOwnState(ev, n)

----------------------------------------------------------------------------
(* Vocabulary of the walker and scheduler properties *)

Events(kind) == {i \in 1..Len(log) : log[i].e = kind}

ReconcileItems == {i \in 1..Len(queue) : queue[i].k = "reconcile"}

CurrentOutcome == Outcome([Machine EXCEPT !.err = lastErr])

(* C1 (as claimed): the queue never holds two reconcile work items for the *)
(* same node, so an update call on a node whose request is still queued    *)
(* enqueues nothing.                                                       *)
C1_OneWorkItemPerNode ==
    \A i, j \in ReconcileItems : queue[i].root = queue[j].root => i = j

(* C2: slice independence.  When no update was requested after a work item *)
(* had begun to run, the quiescent state reached through any placement of  *)
(* the slice boundaries has the work tree, the host tree and the history   *)
(* of stamped actions, effects and commits of the uninterrupted run.       *)
C2_SliceIndependence ==
    (Quiescent /\ expected # NoOutcome) => CurrentOutcome = expected

(* A run that was cut into slices has come to rest after a state change. *)
C2_Witness ==
    /\ Quiescent /\ expected # NoOutcome
    /\ translate = "macro"
    /\ nUpdates > 0
    /\ queue = <<>>
    /\ lastErr = ""

(* C7 (as claimed): a memo component skipped by capture has never been     *)
(* rendered, keeps the child list of its previous version, and once the    *)
(* pass is over holds no structural edit that commit left unapplied.       *)
C7_MemoShortCircuit ==
    \A f \in 1..Len(fibers) :
       fibers[f].memo =>
          /\ fibers[f].renders = 0
          /\ fibers[f].kids = fibers[fibers[f].alternate].kids
          /\ Quiescent => fibers[f].action.op \notin {INSERT, MOVE}

(* C8 (as claimed): a layout effect runs before its component is           *)
(* committed, an effect only after the commit that covers its component.   *)
C8_EffectOrdering ==
    /\ \A i \in Events("layout") : ~log[i].done
    /\ \A i \in Events("effect") : log[i].done

(* C9 (as claimed): the walk of a request commits once, at the node of the *)
(* request, after the whole new subtree of that node has been captured.    *)
C9_CommitOnceAtRoot ==
    /\ \A i \in Events("commit") : log[i].f = log[i].root /\ log[i].full
    /\ \A i, j \in Events("commit") : log[i].rid = log[j].rid => i = j

(* C10 (as claimed): same-tick requests trigger a dispatch on the first    *)
(* push only: while the queue holds nothing but the fresh work items of    *)
(* this tick, one flush invocation is armed.                               *)
C10_SingleFlush ==
    (envTick /\ ~Started /\ queue # <<>> /\ Len(transitions) = Len(queue))
      => micro + macro = 1

(* C10 (amended): every push onto the deferred-callback queue triggers a   *)
(* dispatch of its own, so k requests arm k flush invocations: the number  *)
(* of armed dispatches equals the number of queued callbacks.              *)
C10_DispatchPerPush == micro + macro = Len(transitions)

(* Two requests of one tick are queued, with their two flushes armed. *)
C10_Witness ==
    /\ envTick /\ ~Started
    /\ Len(queue) = 2 /\ Len(transitions) = 2

----------------------------------------------------------------------------
(* Vocabulary of the queue properties *)

(* The work item `id` has been invoked at least once. *)
HasRun(id) == \E i \in Events("run") : log[i].id = id

(* C11: FIFO service with in-place re-arm.  Only the head of the queue has *)
(* ever been invoked, the queue holds its items in the order they were     *)
(* enqueued, no other work item is invoked between the first invocation of *)
(* a work item and its completion, and work items complete in the order in *)
(* which they were enqueued.                                               *)
C11_FifoService ==
    /\ \A p \in 2..Len(queue) : ~HasRun(queue[p].id) /\ queue[p - 1].id < queue[p].id
    /\ \A i, j \in Events("run") :
          (i < j /\ log[i].id # log[j].id)
            => \E d \in Events("done") : i < d /\ d < j /\ log[d].id = log[i].id
    /\ \A i, j \in Events("done") : i < j => log[i].id < log[j].id

(* An unfinished walk waits at the head of the queue with its             *)
(* continuation, a second work item is queued behind it, and an earlier    *)
(* work item has completed.                                                *)
C11_Witness ==
    /\ Len(queue) >= 2
    /\ queue[1].k = "reconcile" /\ queue[1].f # queue[1].root
    /\ HasRun(queue[1].id)
    /\ Events("done") # {}

(* C12 (as claimed): absorption of descendant requests.  An update        *)
(* request on a descendant of a node whose walk is under way creates no    *)
(* work item, and that walk still commits at its own node.                 *)
C12_Absorption ==
    \A u \in Events("update") :
       log[u].under # 0 =>
          /\ log[u].rid = 0
          /\ \A c \in Events("commit") :
                log[c].rid = log[u].under => log[c].f = log[c].root

(* The work node f lies in the subtree of the work node g. *)
Within(f, g) == f = g \/ g \in Above([fib |-> fibers], f)

(* C13 (as claimed): superseded request after removal.  When update(N)     *)
(* has enqueued a work item and a diff removes the subtree containing N    *)
(* before N is rendered again, then N is neither rendered nor handed to    *)
(* commit afterwards.                                                      *)
C13_Superseded ==
    \A u \in Events("update") : \A m \in Events("remove") :
       (/\ u < m /\ log[u].rid # 0
        /\ Within(log[u].f, log[m].f)
        /\ \A r \in Events("render") : ~(u < r /\ r < m /\ log[r].f = log[u].f))
         => \A x \in Events("render") \cup Events("commit") :
               ~(m < x /\ log[x].f = log[u].f)

----------------------------------------------------------------------------
(* Rehydration *)

Hydrated == \E i \in 1..Len(log) : log[i].e = "hydrate"

MarkupAtRender == log[CHOOSE i \in 1..Len(log) : log[i].e = "hydrate"].dom

RootCommitted == \E i \in 1..Len(log) : log[i].e = "commit" /\ log[i].f = rootFiber

(* Every new child of the diff was matched with an old one by UPDATE. *)
MatchedAll(ev) ==
    /\ Len(ev.a) = Len(ev.b)
    /\ Len(ev.actions) = Len(ev.b)
    /\ \A k \in 1..Len(ev.actions) : ev.actions[k].op = UPDATE

(* C14: after render on a container whose host children match the unkeyed *)
(* view in type and order, every diff of the first render matches each     *)
(* existing host node (elements and texts, at every level) with UPDATE,    *)
(* and once the root is committed the host tree has the nodes it had and   *)
(* no others: none was created, none was removed.                          *)
C14_RehydrationReuse ==
    Hydrated =>
      /\ \A i \in 1..Len(log) : log[i].e = "diff" => MatchedAll(log[i])
      /\ \A i \in 1..Len(log) : log[i].e # "remove"
      /\ RootCommitted =>
            /\ Len(dom) = Len(MarkupAtRender)
            /\ \A n \in 1..Len(dom) : dom[n].children = MarkupAtRender[n].children

----------------------------------------------------------------------------
(* Failure containment *)

HasFailed(id) == \E i \in 1..Len(log) : log[i].e = "fail" /\ log[i].id = id

HasFinished(id) == \E i \in 1..Len(log) : log[i].e = "done" /\ log[i].id = id

(* C15: a work item whose callback threw aborts only the flush it ran in:  *)
(* once no dispatch is pending any more, every other work item, queued     *)
(* behind it or enqueued later, has run to completion.                     *)
C15_FailureContainment ==
    micro + macro = 0 =>
      \A i \in 1..Len(log) :
         log[i].e = "schedule" => HasFinished(log[i].id) \/ HasFailed(log[i].id)

----------------------------------------------------------------------------
(* Duplicate keys *)

SharesKey(a) ==
    \E i, j \in 1..Len(a) :
       i # j /\ a[i] # NULL /\ a[j] # NULL
       /\ fibers[a[i]].key # NULL /\ fibers[a[i]].key = fibers[a[j]].key

(* C16: a diff whose old or new child list has two siblings with one key   *)
(* raises no error and returns exactly one action per new child.           *)
C16_DuplicateKeys ==
    \A i \in 1..Len(log) :
       /\ (log[i].e = "diffthrow") => ~(SharesKey(log[i].a) \/ SharesKey(log[i].b))
       /\ (log[i].e = "diff" /\ (SharesKey(log[i].a) \/ SharesKey(log[i].b)))
            => Len(log[i].actions) = Len(log[i].b)

----------------------------------------------------------------------------
(* Action lifetime *)

(* The work nodes reachable from f through child and sibling links. *)
RECURSIVE Linked(_)
Linked(f) ==
    IF f = NULL THEN {}
    ELSE {f} \cup Linked(fibers[f].child) \cup Linked(fibers[f].sibling)

(* C17: once every queued work item has finished, and so the commit of     *)
(* every batch has returned, no work node reachable from the root through  *)
(* child and sibling links carries an action.                              *)
C17_ActionLifetime ==
    (rootFiber # NULL /\ queue = <<>>) =>
       \A f \in Linked(rootFiber) : fibers[f].action = NoAction

----------------------------------------------------------------------------
(* Host handle binding *)

(* C18: every work node of the current tree that has been committed has a  *)
(* host handle: an element, or for a component its placeholder comment.    *)
C18_HostHandleBinding ==
    rootFiber # NULL =>
       \A f \in Linked(rootFiber) \cap committed : fibers[f].node # NULL

----------------------------------------------------------------------------
(* SVG lane *)

InsideSvg(n) ==
    \E a \in 1..Len(dom) :
       a # n /\ dom[a].tag = "svg" /\ IsInclusiveAncestor(dom, a, n)

(* C19: every element of the host tree below an svg element was created    *)
(* in the SVG namespace, on the initial render and on later updates.       *)
C19_SvgLane ==
    \A n \in 1..Len(dom) : (dom[n].kind = "elem" /\ InsideSvg(n)) => dom[n].ns

----------------------------------------------------------------------------
(* Progress *)

AllFinished ==
    \A i \in 1..Len(log) : log[i].e = "schedule" => HasFinished(log[i].id)

(* C20: when every armed dispatch eventually runs and every slice allows   *)
(* a capture, every enqueued work item eventually finishes and the queue   *)
(* eventually becomes empty.                                               *)
C20_Progress == []<>(queue = <<>> /\ AllFinished)

----------------------------------------------------------------------------
(* Teardown *)

(* The work nodes of the subtree of f, through the kids arrays. *)
RECURSIVE KidsTree(_)
KidsTree(f) ==
    IF f = NULL THEN {}
    ELSE {f} \cup
         (IF fibers[f].kids = NULL THEN {}
          ELSE UNION {KidsTree(arrays[fibers[f].kids][i]) :
                        i \in 1..Len(arrays[fibers[f].kids])})

(* g is a host node of the removed subtree with no host node above it in   *)
(* the subtree.                                                            *)
TopmostHost(g, root) ==
    /\ ~fibers[g].isComp
    /\ \A a \in KidsTree(root) \ {g} : g \in KidsTree(a) => fibers[a].isComp

Count(kind, g) == Cardinality({i \in Events(kind) : log[i].f = g})

(* C21: for every subtree handed to removeElement, each topmost host node  *)
(* is detached exactly once and no host node below one is detached, the    *)
(* cleanups of each component node are invoked in exactly one pass, and    *)
(* the ref of every node of the subtree, the root included, is null.       *)
C21_TeardownCompleteness ==
    \A m \in Events("remove") :
       \A g \in KidsTree(log[m].f) :
          /\ ~fibers[g].isComp =>
                Count("detach", g) = IF TopmostHost(g, log[m].f) THEN 1 ELSE 0
          /\ (fibers[g].isComp /\ fibers[g].hooks # NULL) => Count("cleanup", g) = 1
          /\ fibers[g].ref # NULL => refs[fibers[g].ref] = NULL

----------------------------------------------------------------------------
(* Action alignment *)

KeyedDistinct(a) == NoNulls(a) /\ Keyed(a) /\ DistinctKeys(a)

(* The action is the edit of new child c. *)
EditOf(act, c) ==
    \/ act.op = UPDATE /\ fibers[c].alternate # NULL
                       /\ fibers[fibers[c].alternate].key = fibers[c].key
    \/ act.op = INSERT /\ act.cur = c
    \/ act.op = MOVE /\ fibers[c].alternate = act.cur
                     /\ fibers[act.cur].key = fibers[c].key

----------------------------------------------------------------------------
(* State carry-over *)

(* The old child of a diff whose state new child c has received: clone     *)
(* binds it as the alternate of c.                                         *)
ClonedInto(ev, c) ==
    {o \in {ev.a[j] : j \in 1..Len(ev.a)} \ {NULL} : fibers[c].alternate = o}

(* C23: whenever diff clones the state of an old child into a new child,   *)
(* the two have the same type and the same key; a new child whose key      *)
(* matches an old child of another type receives nothing from it.          *)
C23_SameNodeCarryOver ==
    \A i \in DiffEvents :
       \A k \in 1..Len(log[i].b) :
          \A o \in ClonedInto(log[i], log[i].b[k]) : SameItem(o, log[i].b[k])

----------------------------------------------------------------------------
(* Attributes of retained hosts *)

(* The committed host elements of the current tree that were carried over  *)
(* from an old work node of the same type and key.                         *)
RetainedHosts ==
    IF rootFiber = NULL THEN {}
    ELSE {f \in Linked(rootFiber) \cap committed :
            /\ ~fibers[f].isComp /\ fibers[f].type # "#text"
            /\ fibers[f].alternate # NULL /\ SameItem(fibers[f].alternate, f)
            /\ fibers[f].node # NULL}

(* C24: after a commit, the element of every retained host carries the     *)
(* attributes of the new props, whether the host was updated in place or   *)
(* moved by key.                                                           *)
C24_AttributesFollowProps ==
    \A f \in RetainedHosts : dom[fibers[f].node].attr = fibers[f].props.val

====
